---- MODULE Spec2Model ----
(***************************************************************************)
(* A model of tapiriik's Dailymile service adapter                         *)
(* (tapiriik/services/Dailymile/dailymile.py): the backward pagination of  *)
(* DownloadActivityList against a remote entry history, and the two-phase  *)
(* UploadActivity protocol with its inter-upload cooldown, the activity    *)
(* type and distance unit mapping between the two, and DeleteCachedData.   *)
(***************************************************************************)
EXTENDS Integers, Sequences, FiniteSets, TLC

\* ------------------------------------------------------------------ bounds
\* Largest completion time (whole UNIX seconds) of a remote entry; the
\* smallest is -1, an entry that "happened" before the epoch.
MaxTime == 2
\* Largest number of entries in the remote history.
MaxEntries == 3
\* Number of entries the remote returns per page.
PageSize == 2
\* Last second of the wall clock the upload model follows.
MaxClock == 7
\* Largest number of UploadActivity calls in one run.
MaxCalls == 2
\* How often one activity is uploaded and listed again.
MaxRounds == 2
\* Largest number of records one account owns in one cache collection.
MaxKeys == 2

\* ------------------------------------------------------------- vocabulary
\* Python's None, and a present value, for before / earliestDate.
None == <<>>

Some(v) == <<v>>

Times == (-1) .. MaxTime

\* What DownloadActivityList can tell apart in one remote entry:
\*   media   - no 'workout' key                         (line 137)
\*   ok      - a workout of a mapped type, known unit   (lines 168, 176-188)
\*   badtype - activity_type not in the reverse mapping (line 168)
\*   badunit - distance unit outside the four known     (line 189)
Kinds == {"media", "ok", "badtype", "badunit"}

Entries == [at : Times, kind : Kinds]

Min(a, b) == IF a < b THEN a ELSE b

\* ------------------------------------------------------------------ state
VARIABLES
    remote,        \* the remote history, newest first; an entry's id is its index
    inclusive,     \* TRUE: the remote serves at <= until; FALSE: at < until
    exhaustive,    \* the argument of DownloadActivityList
    lpc,           \* position in DownloadActivityList
    before,        \* the cursor (None or Some(seconds))
    earliestDate,  \* minimum EndTime of the current page (None or Some)
    reqdata,       \* reqdata["entries"] of the current page: ids, newest first
    idx,           \* index of the next ride of reqdata
    activities,    \* ids of the entries appended to activities, in order
    exclusions,    \* ids of the entries appended to exclusions, in order
    lerr,          \* the exception that ended the listing
    lgate,         \* last rate-gate / HTTP event of the listing thread
    untils,        \* history: the until value of every list request, in order
    pageMins,      \* history: earliestDate of every page processed to its end
    fault,         \* history: a page of a non-200 response was processed
    ties,          \* history: how often line 155 (before2 - 1) ran
    lstatus,       \* history: status_code of the last list response (0: none)
    \* ---- UploadActivity
    active,        \* the adapter instances that upload in this run
    now,           \* datetime.now(), in whole seconds
    ClassLastUpload, \* the class attribute LastUpload (line 33)
    LastUpload,    \* per instance: the instance attribute, None while unset
    upc,           \* per instance: position in UploadActivity
    activity,      \* per instance: the activity argument of the call
    upload_id,     \* per instance: upload_id (0 for None)
    result,        \* per instance: how the last call ended
    ugate,         \* per instance: last rate-gate / HTTP / sleep event
    polls,         \* per instance: time.sleep(1) calls of this call's cooldown
    calls,         \* number of UploadActivity calls started
    entries,       \* the remote account's entries: records [id, UID]
    tracks,        \* ids of the remote entries that have a track
    luAtCall,      \* history, per instance: LastUpload read when the call began
    postResp,      \* history, per instance: the response to this call's POST
    postTime,      \* history, per instance: when this call's POST was issued
    postGap,       \* history, per instance: POST time minus LastUpload (-1: None)
    puts,          \* history, per instance: entry ids this call's PUTs targeted
    putResp,       \* history, per instance: the response to this call's PUT
    prevResult,    \* history, per instance: how the call before this one ended
    resubmit,      \* history, per instance: the remote had the entry at the POST
    \* ---- type and unit mapping
    mpc,           \* position in the upload / listing of one activity
    neutral,       \* the activity handed to UploadActivity: [Type, Distance]
    req,           \* req["workout"] as built: [activity_type, distance]
    readBack,      \* the activity DownloadActivityList makes of that entry
    readTypes,     \* history: activity.Type of every listing of the entry
    rounds,        \* number of the current upload-and-list round
    \* ---- DeleteCachedData
    strava_cache,            \* cachedb.strava_cache: records [Owner, key]
    strava_activity_cache,   \* cachedb.strava_activity_cache: records [Owner, key]
    invalidations, \* number of DeleteCachedData calls made
    cacheOwner,    \* history: serviceRecord.ExternalID of the last call
    cacheBefore,   \* history: both collections as the last call found them
    cacheResult    \* how the last DeleteCachedData call ended

lvars == <<remote, inclusive, exhaustive, lpc, before, earliestDate, reqdata, idx,
           activities, exclusions, lerr, lgate, untils, pageMins, fault, ties,
           lstatus>>

uvars == <<active, now, ClassLastUpload, LastUpload, upc, activity, upload_id, result,
           ugate, polls, calls, entries, tracks, luAtCall, postResp, postTime,
           postGap, puts, putResp, prevResult, resubmit>>

mvars == <<mpc, neutral, req, readBack, readTypes, rounds>>

cvars == <<strava_cache, strava_activity_cache, invalidations, cacheOwner,
           cacheBefore, cacheResult>>

vars == <<lvars, uvars, mvars, cvars>>

\* ------------------------------------------------------------- the remote
Sorted(h) == \A i \in 1 .. Len(h) : \A j \in i .. Len(h) : h[i].at >= h[j].at

Histories ==
    { h \in UNION { [1 .. n -> Entries] : n \in 0 .. MaxEntries } : Sorted(h) }

Ids == [i \in 1 .. Len(remote) |-> i]

\* The entries the remote lets through for a request with this until.
Served(until, i) ==
    \/ until = None
    \/ inclusive /\ remote[i].at <= until[1]
    \/ ~inclusive /\ remote[i].at < until[1]

\* One page: the newest PageSize entries the remote lets through.
Page(until) ==
    LET visible == SelectSeq(Ids, LAMBDA i : Served(until, i))
    IN  SubSeq(visible, 1, Min(PageSize, Len(visible)))

\* Line 137 with the test dropped: every entry is taken for a workout.
HasWorkoutAlways(i) == TRUE

\* Line 137: 'workout' in ride.
HasWorkout(i) == remote[i].kind # "media"

\* ------------------------------------------------- DownloadActivityList
\* calendar.timegm(strptime(ride["at"], "%Y-%m-%dT%H:%M:%SZ")): the format
\* carries whole seconds only, so the entry's time is its UNIX second.
Timegm(at) == at

\* The rate gate as one thread sees it, after event ev ("acquire": a
\* _globalRateLimit() call; "sleep": a time.sleep; "request": an HTTP
\* request).  "none": no permit; "acquire": one permit, nothing since;
\* "stale": a wait followed the permit; "double": a second permit followed.
Gate(g, ev) ==
    CASE ev = "request" -> "none"
      [] ev = "acquire" -> IF g = "none" THEN "acquire" ELSE "double"
      [] ev = "sleep" -> IF g = "none" THEN "none" ELSE "stale"

\* Line 148 with the comparison turned round.
LowersWrongWay(earliest, at) == earliest = None \/ at > earliest[1]

\* Line 148: the entry's EndTime becomes the page's earliestDate.
Lowers(earliest, at) == earliest = None \/ at < earliest[1]

\* Lines 153-157 lowering the cursor by one every time.
NextBeforeAlwaysLower(cur, before2) == before2 - 1

\* Lines 153-157 with the tie-break removed.
NextBeforeNoTieBreak(cur, before2) == before2

\* Lines 153-157: the cursor after an entry lowered earliestDate.
NextBefore(cur, before2) ==
    IF cur = Some(before2) THEN before2 - 1 ELSE before2

\* Line 116 with the test dropped.
BelowEpochNever(cur) == FALSE

\* Line 116: before is not None and before < 0.
BelowEpoch(cur) == cur # None /\ cur[1] < 0

\* Line 210 without "not exhaustive".
StopsAfterPageIgnoresExhaustive(exh, earliest) == earliest = None

\* Line 210: not exhaustive or not earliestDate.
StopsAfterPage(exh, earliest) == ~exh \/ earliest = None

\* The listing before its first statement (lines 111-113).
ListStart ==
    /\ lpc = "loop"
    /\ before = None
    /\ earliestDate = None
    /\ reqdata = <<>>
    /\ idx = 1
    /\ activities = <<>>
    /\ exclusions = <<>>
    /\ lerr = "none"
    /\ lgate = "none"
    /\ untils = <<>>
    /\ pageMins = {}
    /\ fault = FALSE
    /\ ties = 0
    /\ lstatus = 0

\* Lines 115-119: the loop head, up to the rate-gate acquisition.
LoopHead ==
    /\ lpc = "loop"
    /\ IF BelowEpoch(before)
       THEN /\ lpc' = "done"
            /\ lgate' = lgate
       ELSE /\ lpc' = "get"
            /\ lgate' = Gate(lgate, "acquire")
    /\ UNCHANGED <<remote, inclusive, exhaustive, before, earliestDate, reqdata, idx,
                   activities, exclusions, lerr, untils, pageMins, fault, ties,
                   lstatus>>
    /\ UNCHANGED <<uvars, mvars, cvars>>

\* Lines 124-133 for a body that parsed to an object with an entries list.
TakePage(page) ==
    /\ earliestDate' = None
    /\ reqdata' = page
    /\ idx' = 1
    /\ lpc' = IF Len(page) = 0 THEN "done" ELSE "ride"
    /\ lerr' = lerr

\* Lines 120-131: the list GET and what its response leads to.
Get ==
    /\ lpc = "get"
    /\ untils' = Append(untils, before)
    /\ lgate' = Gate(lgate, "request")
    /\ \/ \* 200 with the page the remote serves
          /\ lstatus' = 200
          /\ TakePage(Page(before))
          /\ fault' = fault
       \/ \* 401 (lines 121-122)
          /\ lstatus' = 401
          /\ lpc' = "error"
          /\ lerr' = "auth"
          /\ UNCHANGED <<earliestDate, reqdata, idx, fault>>
       \/ \* any other status is not looked at: the body decides
          /\ lstatus' = 500
          /\ \/ \* the body is no JSON (resp.json() raises), or has no "entries"
                /\ lpc' = "error"
                /\ lerr' = "crash"
                /\ earliestDate' = None
                /\ UNCHANGED <<reqdata, idx, fault>>
             \/ \* the body is an empty object or array (line 128)
                /\ TakePage(<<>>)
                /\ fault' = TRUE
             \/ \* the body carries entries all the same
                /\ TakePage(Page(before))
                /\ fault' = TRUE
    /\ UNCHANGED <<remote, inclusive, exhaustive, before, activities, exclusions,
                   pageMins, ties>>
    /\ UNCHANGED <<uvars, mvars, cvars>>

\* Lines 133-208: one iteration of "for ride in reqdata['entries']".
Ride ==
    /\ lpc = "ride"
    /\ LET id == reqdata[idx]
           e == remote[id]
           lowers == Lowers(earliestDate, e.at)
           last == idx = Len(reqdata)
       IN  /\ idx' = idx + 1
           /\ IF ~HasWorkout(id)
              THEN UNCHANGED <<earliestDate, before, ties>>
              ELSE /\ earliestDate' = IF lowers THEN Some(e.at) ELSE earliestDate
                   /\ before' = IF lowers
                                THEN Some(NextBefore(before, Timegm(e.at)))
                                ELSE before
                   /\ ties' = IF lowers /\ before = Some(Timegm(e.at))
                              THEN ties + 1 ELSE ties
           /\ \/ /\ e.kind = "media"
                 /\ UNCHANGED <<activities, exclusions, lerr>>
                 /\ lpc' = IF last THEN "endpage" ELSE "ride"
              \/ /\ e.kind = "ok"
                 /\ activities' = Append(activities, id)
                 /\ UNCHANGED <<exclusions, lerr>>
                 /\ lpc' = IF last THEN "endpage" ELSE "ride"
              \/ /\ e.kind = "badtype"
                 /\ exclusions' = Append(exclusions, id)
                 /\ UNCHANGED <<activities, lerr>>
                 /\ lpc' = IF last THEN "endpage" ELSE "ride"
              \/ /\ e.kind = "badunit"
                 /\ \/ /\ exclusions' = Append(exclusions, id)
                       /\ UNCHANGED <<activities, lerr>>
                       /\ lpc' = IF last THEN "endpage" ELSE "ride"
                    \/ \* line 190 reads UserException.Other, not
                       \* UserExceptionType.Other: an AttributeError when the
                       \* class has no such attribute
                       /\ lpc' = "error"
                       /\ lerr' = "crash"
                       /\ UNCHANGED <<activities, exclusions>>
    /\ UNCHANGED <<remote, inclusive, exhaustive, reqdata, lgate, untils, pageMins,
                   fault, lstatus>>
    /\ UNCHANGED <<uvars, mvars, cvars>>

\* Lines 210-211: the end of a page.
EndPage ==
    /\ lpc = "endpage"
    /\ lpc' = IF StopsAfterPage(exhaustive, earliestDate) THEN "done" ELSE "loop"
    /\ pageMins' = IF earliestDate = None THEN pageMins
                   ELSE pageMins \cup {earliestDate[1]}
    /\ UNCHANGED <<remote, inclusive, exhaustive, before, earliestDate, reqdata, idx,
                   activities, exclusions, lerr, lgate, untils, fault, ties,
                   lstatus>>
    /\ UNCHANGED <<uvars, mvars, cvars>>

\* ------------------------------------------------------- UploadActivity
\* The inter-upload cooldown in seconds (line 243).
Cooldown == 5

Insts == {"a", "b"}

\* The activities handed to UploadActivity: one with trajectory points, one
\* without (activity.CountTotalWaypoints(), line 294).
Activities ==
    { [UID |-> "gps", waypoints |-> 1], [UID |-> "manual", waypoints |-> 0] }

NoActivity == [UID |-> "none", waypoints |-> 0]

\* What UploadActivity looks at in a response: status_code (500 stands for
\* every status other than 201 and 401) and whether the text contains
\* "duplicate of activity".
Responses == [status : {201, 401, 500}, dup : BOOLEAN]

NoResponse == [status |-> 0, dup |-> FALSE]

Stored(uid) == \E e \in entries : e.UID = uid

\* The remote's answers to POST /entries.json: it creates (201) no second
\* entry for an activity it already has.
PostResponses(a) == { r \in Responses : r.status = 201 => ~Stored(a.UID) }

\* The remote's answers to PUT /entries/{id}/track.json.
PutResponses(id) == Responses

\* self.LastUpload as read: the instance attribute when set, else the class
\* attribute (line 33).
ReadLastUpload(i) ==
    IF LastUpload[i] # None THEN LastUpload[i] ELSE ClassLastUpload

\* Line 243 with the comparison off by one second.
CooldownOverEarly(last, t) == last = None \/ t - last[1] >= Cooldown - 1

\* Lines 242-243: the cooldown loop is not (or no longer) entered.
CooldownOver(last, t) == last = None \/ t - last[1] >= Cooldown

\* Lines 282-289 without the duplicate branch.
PostOutcomeNoDuplicate(r) ==
    IF r.status = 201 THEN "created"
    ELSE IF r.status = 401 THEN "auth"
    ELSE "api"

\* Lines 282-289 with the duplicate marker tested before the 401.
PostOutcomeMarkerFirst(r) ==
    IF r.status = 201 THEN "created"
    ELSE IF r.dup THEN "noop"
    ELSE IF r.status = 401 THEN "auth"
    ELSE "api"

\* Lines 282-289: what the POST's response leads to.
PostOutcome(r) ==
    IF r.status = 201 THEN "created"
    ELSE IF r.status = 401 THEN "auth"
    ELSE IF r.dup THEN "noop"
    ELSE "api"

\* Lines 311-317: what the PUT's response leads to.
PutOutcome(r) ==
    IF r.status = 201 THEN "id"
    ELSE IF r.dup THEN "noop"
    ELSE "api"

\* Lines 287, 314, 320 skipped on the duplicate paths.
RecordsLastUploadOnIdOnly(outcome) == outcome = "id"

\* Lines 287, 314, 320: the ways out that assign self.LastUpload.
RecordsLastUpload(outcome) == outcome \in {"id", "noop"}

\* Line 294 with the test dropped: the track is attached always.
AttachesTrackAlways(a) == TRUE

\* Line 294: if activity.CountTotalWaypoints().
AttachesTrack(a) == a.waypoints # 0

UploadStart ==
    /\ now = 0
    /\ ClassLastUpload = None
    /\ LastUpload = [i \in Insts |-> None]
    /\ upc = [i \in Insts |-> "idle"]
    /\ activity = [i \in Insts |-> NoActivity]
    /\ upload_id = [i \in Insts |-> 0]
    /\ result = [i \in Insts |-> "none"]
    /\ ugate = [i \in Insts |-> "none"]
    /\ polls = [i \in Insts |-> 0]
    /\ calls = 0
    /\ entries = {}
    /\ tracks = {}
    /\ luAtCall = [i \in Insts |-> None]
    /\ postResp = [i \in Insts |-> NoResponse]
    /\ postTime = [i \in Insts |-> 0]
    /\ postGap = [i \in Insts |-> -1]
    /\ puts = [i \in Insts |-> <<>>]
    /\ putResp = [i \in Insts |-> NoResponse]
    /\ prevResult = [i \in Insts |-> "none"]
    /\ resubmit = [i \in Insts |-> FALSE]

\* "self.LastUpload = ..." taken as an assignment to the class attribute.
AssignLastUploadToClass(cls, t) == t

\* Lines 287, 314, 320: "self.LastUpload = datetime.now()" binds an attribute
\* of the instance; this is the class attribute (line 33) after it.
AssignLastUpload(cls, t) == cls

\* How a call ends: by return (lines 288, 316, 321) or by raise (lines 284,
\* 289, 317).
Finish(i, outcome) ==
    /\ upc' = [upc EXCEPT ![i] = "idle"]
    /\ result' = [result EXCEPT ![i] = outcome]
    /\ LastUpload' = IF RecordsLastUpload(outcome)
                     THEN [LastUpload EXCEPT ![i] = Some(now)]
                     ELSE LastUpload
    /\ ClassLastUpload' = IF RecordsLastUpload(outcome)
                          THEN AssignLastUpload(ClassLastUpload, Some(now))
                          ELSE ClassLastUpload

\* Lines 239-241: a call of UploadActivity on instance i.
Call(i, a) ==
    /\ i \in active
    /\ upc[i] = "idle"
    /\ calls < MaxCalls
    /\ calls' = calls + 1
    /\ upc' = [upc EXCEPT ![i] = "cooldown"]
    /\ activity' = [activity EXCEPT ![i] = a]
    /\ upload_id' = [upload_id EXCEPT ![i] = 0]
    /\ result' = [result EXCEPT ![i] = "none"]
    /\ polls' = [polls EXCEPT ![i] = 0]
    /\ luAtCall' = [luAtCall EXCEPT ![i] = ReadLastUpload(i)]
    /\ postResp' = [postResp EXCEPT ![i] = NoResponse]
    /\ putResp' = [putResp EXCEPT ![i] = NoResponse]
    /\ puts' = [puts EXCEPT ![i] = <<>>]
    /\ prevResult' = [prevResult EXCEPT ![i] = result[i]]
    /\ resubmit' = [resubmit EXCEPT ![i] = FALSE]
    /\ UNCHANGED <<active, now, ClassLastUpload, LastUpload, ugate, entries, tracks,
                   postTime, postGap>>
    /\ UNCHANGED <<lvars, mvars, cvars>>

\* Lines 242-245: one test of the cooldown loop, and its time.sleep(1).
CooldownStep(i) ==
    /\ upc[i] = "cooldown"
    /\ IF CooldownOver(ReadLastUpload(i), now)
       THEN /\ upc' = [upc EXCEPT ![i] = "ratelimit"]
            /\ UNCHANGED <<now, polls, ugate>>
       ELSE /\ now < MaxClock
            /\ now' = now + 1
            /\ polls' = [polls EXCEPT ![i] = @ + 1]
            /\ ugate' = [ugate EXCEPT ![i] = Gate(@, "sleep")]
            /\ upc' = upc
    /\ UNCHANGED <<active, ClassLastUpload, LastUpload, activity, upload_id, result,
                   calls, entries, tracks, luAtCall, postResp, postTime, postGap,
                   puts, putResp, prevResult, resubmit>>
    /\ UNCHANGED <<lvars, mvars, cvars>>

\* Lines 246-278: the payload is built and the rate gate acquired.
RateLimitPost(i) ==
    /\ upc[i] = "ratelimit"
    /\ upc' = [upc EXCEPT ![i] = "post"]
    /\ ugate' = [ugate EXCEPT ![i] = Gate(@, "acquire")]
    /\ UNCHANGED <<active, now, ClassLastUpload, LastUpload, activity, upload_id,
                   result, polls, calls, entries, tracks, luAtCall, postResp,
                   postTime, postGap, puts, putResp, prevResult, resubmit>>
    /\ UNCHANGED <<lvars, mvars, cvars>>

\* Lines 280-294 (and 320-321 for an activity without a track): the POST.
Post(i) ==
    /\ upc[i] = "post"
    /\ \E r \in PostResponses(activity[i]) :
         LET id == Cardinality(entries) + 1
             outcome == PostOutcome(r)
         IN  /\ postResp' = [postResp EXCEPT ![i] = r]
             /\ entries' = IF r.status = 201
                           THEN entries \cup {[id |-> id, UID |-> activity[i].UID]}
                           ELSE entries
             /\ IF outcome = "created"
                THEN /\ upload_id' = [upload_id EXCEPT ![i] = id]
                     /\ IF AttachesTrack(activity[i])
                        THEN /\ upc' = [upc EXCEPT ![i] = "track"]
                             /\ UNCHANGED <<result, LastUpload, ClassLastUpload>>
                        ELSE Finish(i, "id")
                ELSE /\ Finish(i, outcome)
                     /\ upload_id' = upload_id
    /\ ugate' = [ugate EXCEPT ![i] = Gate(@, "request")]
    /\ postTime' = [postTime EXCEPT ![i] = now]
    /\ postGap' = [postGap EXCEPT ![i] =
                      IF ReadLastUpload(i) = None THEN -1
                      ELSE now - ReadLastUpload(i)[1]]
    /\ resubmit' = [resubmit EXCEPT ![i] = Stored(activity[i].UID)]
    /\ UNCHANGED <<active, now, activity, polls, calls, tracks, luAtCall, puts,
                   putResp, prevResult>>
    /\ UNCHANGED <<lvars, mvars, cvars>>

\* Lines 295-304: the track is rendered, then time.sleep(upload_poll_wait).
TrackBackoff(i) ==
    /\ upc[i] = "track"
    /\ now < MaxClock
    /\ now' = now + 1
    /\ ugate' = [ugate EXCEPT ![i] = Gate(@, "sleep")]
    /\ upc' = [upc EXCEPT ![i] = "ratelimit2"]
    /\ UNCHANGED <<active, ClassLastUpload, LastUpload, activity, upload_id, result,
                   polls, calls, entries, tracks, luAtCall, postResp, postTime,
                   postGap, puts, putResp, prevResult, resubmit>>
    /\ UNCHANGED <<lvars, mvars, cvars>>

\* Line 305 left out: the PUT follows the sleep without a permit.
RateLimitPutSkipped(i) ==
    /\ upc[i] = "ratelimit2"
    /\ upc' = [upc EXCEPT ![i] = "put"]
    /\ UNCHANGED <<active, now, ClassLastUpload, LastUpload, activity, upload_id,
                   result, ugate, polls, calls, entries, tracks, luAtCall, postResp,
                   postTime, postGap, puts, putResp, prevResult, resubmit>>
    /\ UNCHANGED <<lvars, mvars, cvars>>

\* Line 305: the rate gate before the PUT.
RateLimitPut(i) ==
    /\ upc[i] = "ratelimit2"
    /\ upc' = [upc EXCEPT ![i] = "put"]
    /\ ugate' = [ugate EXCEPT ![i] = Gate(@, "acquire")]
    /\ UNCHANGED <<active, now, ClassLastUpload, LastUpload, activity, upload_id,
                   result, polls, calls, entries, tracks, luAtCall, postResp,
                   postTime, postGap, puts, putResp, prevResult, resubmit>>
    /\ UNCHANGED <<lvars, mvars, cvars>>

\* Lines 310-321: the PUT of the track to entries/<upload_id>/track.json.
Put(i) ==
    /\ upc[i] = "put"
    /\ \E r \in PutResponses(upload_id[i]) :
         /\ putResp' = [putResp EXCEPT ![i] = r]
         /\ tracks' = IF r.status = 201 THEN tracks \cup {upload_id[i]} ELSE tracks
         /\ Finish(i, PutOutcome(r))
    /\ puts' = [puts EXCEPT ![i] = Append(@, upload_id[i])]
    /\ ugate' = [ugate EXCEPT ![i] = Gate(@, "request")]
    /\ UNCHANGED <<active, now, activity, upload_id, polls, calls, entries,
                   luAtCall, postResp, postTime, postGap, prevResult, resubmit>>
    /\ UNCHANGED <<lvars, mvars, cvars>>

\* The process is interrupted between entry creation and track attach; the
\* instance of the process that takes over starts from the class attribute.
Interrupt(i) ==
    /\ upc[i] \in {"track", "ratelimit2", "put"}
    /\ upc' = [upc EXCEPT ![i] = "idle"]
    /\ result' = [result EXCEPT ![i] = "killed"]
    /\ LastUpload' = [LastUpload EXCEPT ![i] = None]
    /\ ugate' = [ugate EXCEPT ![i] = "none"]
    /\ UNCHANGED <<active, now, ClassLastUpload, activity, upload_id, polls, calls,
                   entries, tracks, luAtCall, postResp, postTime, postGap, puts,
                   putResp, prevResult, resubmit>>
    /\ UNCHANGED <<lvars, mvars, cvars>>

\* Time passes (the rate gate blocks, a request takes its time).
Tick ==
    /\ active # {}
    /\ now < MaxClock
    /\ now' = now + 1
    /\ UNCHANGED <<active, ClassLastUpload, LastUpload, upc, activity, upload_id,
                   result, ugate, polls, calls, entries, tracks, luAtCall, postResp,
                   postTime, postGap, puts, putResp, prevResult, resubmit>>
    /\ UNCHANGED <<lvars, mvars, cvars>>

\* ------------------------------------------------- type and unit mapping
\* Lines 39-53: common -> Dailymile.
activityTypeMappings ==
    ("Cycling" :> "Cycling") @@ ("MountainBiking" :> "Cycling") @@
    ("Hiking" :> "Walking") @@ ("Running" :> "Running") @@
    ("Walking" :> "Walking") @@ ("Snowboarding" :> "Fitness") @@
    ("Skating" :> "Fitness") @@ ("CrossCountrySkiing" :> "Fitness") @@
    ("DownhillSkiing" :> "Fitness") @@ ("Swimming" :> "Swimming") @@
    ("Gym" :> "Fitness") @@ ("Rowing" :> "Fitness") @@
    ("Elliptical" :> "Fitness")

\* Lines 56-62 without the "Fitness" row.
reverseActivityTypeMappingsNoFitness ==
    ("Cycling" :> "Cycling") @@ ("Running" :> "Running") @@
    ("Walking" :> "Walking") @@ ("Swimming" :> "Swimming")

\* Lines 56-62: Dailymile -> common.
reverseActivityTypeMappings ==
    ("Cycling" :> "Cycling") @@ ("Running" :> "Running") @@
    ("Walking" :> "Walking") @@ ("Swimming" :> "Swimming") @@
    ("Fitness" :> "Gym")

\* Line 64.
SupportedActivities == DOMAIN activityTypeMappings

\* A distance value is a decimal number with three places, held as its
\* number of thousandths: 1.5 is 1500, 1500 is 1500000.
Thousandths(n) == n * 1000

\* ActivityStatistic: a value tagged with its unit.
Stat(units, value) == [Units |-> units, Value |-> value]

\* The distances of the activities handed to UploadActivity: 0 m, 400 m,
\* 1500 m and 1.5 km, 10 km.
Distances ==
    { Stat("Meters", Thousandths(0)), Stat("Meters", Thousandths(400)),
      Stat("Meters", Thousandths(1500)), Stat("Kilometers", 1500),
      Stat("Kilometers", Thousandths(10)) }

NeutralActivities == [Type : SupportedActivities, Distance : Distances]

NoNeutral == [Type |-> "none", Distance |-> Stat("none", 0)]

NoReq == [activity_type |-> "none", distance |-> [value |-> 0, units |-> "none"]]

\* ActivityStatistic.asUnits between meters and kilometers.
asUnits(stat, units) ==
    IF stat.Units = units THEN stat
    ELSE IF units = "Meters" THEN Stat("Meters", stat.Value * 1000)
    ELSE Stat("Kilometers", stat.Value \div 1000)

\* Lines 264-273 without the Swimming case.
DistanceFieldKilometers(a) ==
    [value |-> asUnits(a.Distance, "Kilometers").Value, units |-> "kilometers"]

\* Lines 264-273: req["workout"]["distance"].
DistanceField(a) ==
    IF a.Type = "Swimming"
    THEN [value |-> asUnits(a.Distance, "Meters").Value, units |-> "meters"]
    ELSE [value |-> asUnits(a.Distance, "Kilometers").Value, units |-> "kilometers"]

\* Lines 181-188: activity.Stats.Distance of a listed entry, for the units
\* the code knows; yards become miles.
DistanceStat(d) ==
    CASE d.units = "miles" -> Stat("Miles", d.value)
      [] d.units = "yards" -> Stat("Miles", d.value \div 1760)
      [] d.units = "meters" -> Stat("Meters", d.value)
      [] d.units = "kilometers" -> Stat("Kilometers", d.value)

\* No activity is being mapped.
MapperIdle ==
    /\ mpc = "idle"
    /\ neutral = NoNeutral
    /\ req = NoReq
    /\ readBack = NoNeutral
    /\ readTypes = <<>>
    /\ rounds = 1

\* Lines 251-273: UploadActivity builds req["workout"].
BuildRequest ==
    /\ mpc = "build"
    /\ req' = [activity_type |-> activityTypeMappings[neutral.Type],
               distance |-> DistanceField(neutral)]
    /\ mpc' = "read"
    /\ UNCHANGED <<neutral, readBack, readTypes, rounds>>
    /\ UNCHANGED <<lvars, uvars, cvars>>

\* Lines 168-188: DownloadActivityList maps the type and the distance of the
\* entry; an unmapped type excludes it.
ReadEntry ==
    /\ mpc = "read"
    /\ IF req.activity_type \notin DOMAIN reverseActivityTypeMappings
       THEN /\ readTypes' = Append(readTypes, "unmapped")
            /\ mpc' = "done"
            /\ UNCHANGED readBack
       ELSE /\ readBack' = [Type |-> reverseActivityTypeMappings[req.activity_type],
                            Distance |-> DistanceStat(req.distance)]
            /\ readTypes' = Append(readTypes, readBack'.Type)
            /\ mpc' = IF rounds < MaxRounds THEN "resync" ELSE "done"
    /\ UNCHANGED <<neutral, req, rounds>>
    /\ UNCHANGED <<lvars, uvars, cvars>>

\* Lines 208, 239: the activity listed is the argument of the next upload.
Resync ==
    /\ mpc = "resync"
    /\ neutral' = readBack
    /\ req' = NoReq
    /\ rounds' = rounds + 1
    /\ mpc' = "build"
    /\ UNCHANGED <<readBack, readTypes>>
    /\ UNCHANGED <<lvars, uvars, cvars>>

\* ------------------------------------------------------ DeleteCachedData
\* serviceRecord.ExternalID of the accounts.
Accounts == {"A", "B"}

CacheRecords == [Owner : Accounts, key : 1 .. MaxKeys]

\* collection.remove({"Owner": owner}): what is left of the collection.
Remove(collection, owner) == { r \in collection : r.Owner # owner }

\* No DeleteCachedData call has been made.
CacheStart ==
    /\ invalidations = 0
    /\ cacheOwner = "none"
    /\ cacheBefore = <<{}, {}>>
    /\ cacheResult = "none"

\* The cache is empty and stays out of the run.
CacheIdle ==
    /\ strava_cache = {}
    /\ strava_activity_cache = {}
    /\ CacheStart

\* Lines 323-325 without line 325.
DeleteCachedDataFirstOnly(owner) ==
    /\ invalidations < MaxCalls
    /\ strava_cache' = Remove(strava_cache, owner)
    /\ strava_activity_cache' = strava_activity_cache
    /\ invalidations' = invalidations + 1
    /\ cacheOwner' = owner
    /\ cacheBefore' = <<strava_cache, strava_activity_cache>>
    /\ cacheResult' = "ok"
    /\ UNCHANGED <<lvars, uvars, mvars>>

\* Lines 323-325: DeleteCachedData(serviceRecord).
DeleteCachedData(owner) ==
    /\ invalidations < MaxCalls
    /\ strava_cache' = Remove(strava_cache, owner)
    /\ strava_activity_cache' = Remove(strava_activity_cache, owner)
    /\ invalidations' = invalidations + 1
    /\ cacheOwner' = owner
    /\ cacheBefore' = <<strava_cache, strava_activity_cache>>
    /\ cacheResult' = "ok"
    /\ UNCHANGED <<lvars, uvars, mvars>>

\* ---------------------------------------------------------- specifications
\* DownloadActivityList is not called.
ListIdle ==
    /\ lpc = "idle"
    /\ before = None
    /\ earliestDate = None
    /\ reqdata = <<>>
    /\ idx = 1
    /\ activities = <<>>
    /\ exclusions = <<>>
    /\ lerr = "none"
    /\ lgate = "none"
    /\ untils = <<>>
    /\ pageMins = {}
    /\ fault = FALSE
    /\ ties = 0
    /\ lstatus = 0

ListInit ==
    /\ remote \in Histories
    /\ inclusive \in BOOLEAN
    /\ exhaustive \in BOOLEAN
    /\ ListStart
    /\ UploadStart
    /\ active = {}
    /\ MapperIdle
    /\ CacheIdle

ListNext == LoopHead \/ Get \/ Ride \/ EndPage

ListSpec == ListInit /\ [][ListNext]_vars

\* One adapter instance uploads; no listing runs.
UploadInit ==
    /\ remote = <<>>
    /\ inclusive = TRUE
    /\ exhaustive = FALSE
    /\ ListIdle
    /\ UploadStart
    /\ active = {"a"}
    /\ MapperIdle
    /\ CacheIdle

UploadNext ==
    \/ \E i \in Insts : \E a \in Activities : Call(i, a)
    \/ \E i \in Insts : CooldownStep(i)
    \/ \E i \in Insts : RateLimitPost(i)
    \/ \E i \in Insts : Post(i)
    \/ \E i \in Insts : TrackBackoff(i)
    \/ \E i \in Insts : RateLimitPut(i)
    \/ \E i \in Insts : Put(i)
    \/ \E i \in Insts : Interrupt(i)
    \/ Tick

UploadSpec == UploadInit /\ [][UploadNext]_vars

\* Two adapter instances upload, their steps interleaved in any order.
PairInit ==
    /\ remote = <<>>
    /\ inclusive = TRUE
    /\ exhaustive = FALSE
    /\ ListIdle
    /\ UploadStart
    /\ active = Insts
    /\ MapperIdle
    /\ CacheIdle

\* The steps of the two instances; the clock moves with their sleeps (lines
\* 244 and 304).
PairNext ==
    \/ \E i \in Insts : \E a \in Activities : Call(i, a)
    \/ \E i \in Insts : CooldownStep(i)
    \/ \E i \in Insts : RateLimitPost(i)
    \/ \E i \in Insts : Post(i)
    \/ \E i \in Insts : TrackBackoff(i)
    \/ \E i \in Insts : RateLimitPut(i)
    \/ \E i \in Insts : Put(i)
    \/ \E i \in Insts : Interrupt(i)

PairSpec == PairInit /\ [][PairNext]_vars

\* One activity is uploaded and listed again, MaxRounds times.
MapperInit ==
    /\ remote = <<>>
    /\ inclusive = TRUE
    /\ exhaustive = FALSE
    /\ ListIdle
    /\ UploadStart
    /\ active = {}
    /\ CacheIdle
    /\ mpc = "build"
    /\ neutral \in NeutralActivities
    /\ req = NoReq
    /\ readBack = NoNeutral
    /\ readTypes = <<>>
    /\ rounds = 1

MapperNext == BuildRequest \/ ReadEntry \/ Resync

MapperSpec == MapperInit /\ [][MapperNext]_vars

\* The cached data of accounts is deleted, whatever the cache holds.
CacheInit ==
    /\ remote = <<>>
    /\ inclusive = TRUE
    /\ exhaustive = FALSE
    /\ ListIdle
    /\ UploadStart
    /\ active = {}
    /\ MapperIdle
    /\ strava_cache \in SUBSET CacheRecords
    /\ strava_activity_cache \in SUBSET CacheRecords
    /\ CacheStart

CacheNext == \E owner \in Accounts : DeleteCachedData(owner)

CacheSpec == CacheInit /\ [][CacheNext]_vars

\* The adapter runs one operation: a listing, or uploads.
Init == ListInit \/ UploadInit

Next == ListNext \/ UploadNext

Spec == Init /\ [][Next]_vars

\* ------------------------------------------------------------ properties
Range(f) == { f[k] : k \in DOMAIN f }

\* How often the listing has emitted entry id so far.
Emissions(id) ==
    Cardinality({ k \in DOMAIN activities : activities[k] = id })
    + Cardinality({ k \in DOMAIN exclusions : exclusions[k] = id })

Emitted(id) == id \in Range(activities) \cup Range(exclusions)

ListEnded == lpc \in {"done", "error"}

\* An exhaustive listing that returned, every response a 200.
ExhaustiveReturn == lpc = "done" /\ exhaustive /\ ~fault

\* C1: an exhaustive or single-page listing of a finite history ends after a
\* bounded number of list requests: at most two per remote entry and one
\* more, no two consecutive requests carry the same cursor, and the listing
\* is never stuck before it ended.
C1_BoundedRequests ==
    /\ Len(untils) <= 2 * Len(remote) + 1
    /\ \A k \in 1 .. Len(untils) - 1 : untils[k] # untils[k + 1]
    /\ ListEnded \/ ENABLED ListNext

\* C1 witness: an exhaustive listing returned after a tie on the boundary
\* second made it lower the cursor by one.
C1_Witness ==
    /\ ExhaustiveReturn
    /\ ties > 0
    /\ Len(untils) >= 3

\* C2 as claimed: no entry is emitted twice, whatever the remote's reading of
\* until.
C2_NoDuplicates == \A id \in DOMAIN remote : Emissions(id) <= 1

\* C2 amended: against a remote that reads until as exclusive no entry is
\* emitted twice; against an inclusive one an entry is emitted at most twice.
C2_NoDuplicatesExclusive ==
    /\ ~inclusive => \A id \in DOMAIN remote : Emissions(id) <= 1
    /\ \A id \in DOMAIN remote : Emissions(id) <= 2

\* C2 witness: an exhaustive listing against an exclusive remote returned
\* after a page boundary fell between two entries of one second.
C2_Witness ==
    /\ ExhaustiveReturn
    /\ ~inclusive
    /\ Len(untils) >= 2
    /\ \E i, j \in DOMAIN remote :
         /\ i # j
         /\ HasWorkout(i) /\ HasWorkout(j)
         /\ remote[i].at = remote[j].at
         /\ Emissions(i) = 1
         /\ remote[i].at \in pageMins

\* The exhaustive listing stopped without running out of entries: its last
\* page held no workout, or its cursor fell below the epoch.
StoppedEarly ==
    \/ reqdata # <<>> /\ earliestDate = None
    \/ before # None /\ before[1] < 0

\* The history of the boundary scenario: one full page of workouts of one
\* second, then one older workout, none of them before the epoch.
BoundaryScenario ==
    /\ Len(remote) = PageSize + 1
    /\ remote[PageSize + 1].at >= 0
    /\ \A i \in DOMAIN remote : HasWorkout(i)
    /\ \A i \in 1 .. PageSize : remote[i].at = remote[1].at
    /\ remote[PageSize + 1].at < remote[1].at

\* C3 as claimed: an exhaustive listing that returns omits no workout entry.
C3_NoOmission ==
    ExhaustiveReturn => \A id \in DOMAIN remote : HasWorkout(id) => Emitted(id)

\* C3 amended: an exhaustive listing that returns omits a workout entry only
\* if the entry shares its second with the oldest workout of a fetched page,
\* or the listing stopped early; what it emits goes to activities when type
\* and unit are supported and to exclusions otherwise; and in the boundary
\* scenario every entry is emitted.
C3_OmitsOnlyBoundary ==
    /\ ExhaustiveReturn =>
         \A id \in DOMAIN remote :
            HasWorkout(id) /\ ~Emitted(id) =>
               remote[id].at \in pageMins \/ StoppedEarly
    /\ \A id \in Range(activities) : remote[id].kind = "ok"
    /\ \A id \in Range(exclusions) : remote[id].kind \in {"badtype", "badunit"}
    /\ ExhaustiveReturn /\ BoundaryScenario => \A id \in DOMAIN remote : Emitted(id)

\* C3 witness: the boundary scenario, listed to its end.
C3_Witness ==
    /\ ExhaustiveReturn
    /\ BoundaryScenario
    /\ \A id \in DOMAIN remote : Emitted(id)

\* C4 as claimed: at the end of a page with a workout, the cursor is the
\* page's minimum EndTime, or one less exactly when that minimum equals the
\* cursor the page was requested with.
C4_CursorAdvanceRule ==
    lpc = "endpage" /\ earliestDate # None =>
       LET candidate == Timegm(earliestDate[1])
       IN  before = IF Some(candidate) = untils[Len(untils)]
                    THEN Some(candidate - 1)
                    ELSE Some(candidate)

\* The entry the next Ride step processes.
CurrentRide == remote[reqdata[idx]]

\* C11 as claimed: processing a workout entry of an unmapped type or an
\* unknown distance unit appends one exclusion carrying the entry's id,
\* appends no activity, raises nothing and goes on to the next entry.
C11_PerEntryErrorsAreExclusions ==
    [][ lpc = "ride" /\ CurrentRide.kind \in {"badtype", "badunit"} =>
          /\ exclusions' = Append(exclusions, reqdata[idx])
          /\ activities' = activities
          /\ lerr' = "none"
          /\ lpc' \in {"ride", "endpage"}
          /\ idx' = idx + 1 ]_vars

\* C12: processing an entry without a 'workout' key leaves the activities,
\* the exclusions and the cursor (before, earliestDate) as they were.
C12_MediaEntrySkipped ==
    [][ lpc = "ride" /\ CurrentRide.kind = "media" =>
          UNCHANGED <<activities, exclusions, before, earliestDate>> ]_vars

\* C12 witness: a media entry was processed on a page after an activity had
\* been emitted and the cursor set.
C12_Witness ==
    /\ lpc \in {"ride", "endpage"}
    /\ idx > 1
    /\ remote[reqdata[idx - 1]].kind = "media"
    /\ activities # <<>>
    /\ before # None

\* C13 as claimed: a list response whose status is neither 200 nor 401 ends
\* the listing with an error; none of its entries is processed.
C13_Non200Fails ==
    /\ lstatus = 500 => lpc = "error"
    /\ ~fault

\* The cursors of the list requests after the first.
LaterUntils == { k \in DOMAIN untils : k >= 2 }

\* C18: the first list request carries no cursor, every later one carries a
\* cursor that is not negative and is strictly below the one before it.
C18_CursorsDecrease ==
    /\ untils # <<>> => untils[1] = None
    /\ \A k \in LaterUntils : untils[k] # None /\ untils[k][1] >= 0
    /\ \A k \in LaterUntils : k >= 3 => untils[k][1] < untils[k - 1][1]
    /\ lpc = "get" /\ before # None => before[1] >= 0

\* C18 witness: three cursors were sent, and the listing then stopped at a
\* cursor below the epoch.
C18_Witness ==
    /\ lpc = "done"
    /\ Len(untils) >= 4
    /\ before # None /\ before[1] < 0

\* The page last fetched held an entry with a workout.
PageHadWorkout == \E k \in DOMAIN reqdata : HasWorkout(reqdata[k])

\* C19: a listing that is not exhaustive sends one request, without cursor;
\* an exhaustive one sends a further request after a page exactly when the
\* page held a workout entry and the cursor it left is not negative.
C19_FurtherRequests ==
    /\ ~exhaustive => Len(untils) <= 1
    /\ ~exhaustive /\ ListEnded => untils = <<None>>
    /\ lpc = "get" /\ untils # <<>> =>
          exhaustive /\ PageHadWorkout /\ before # None /\ before[1] >= 0
    /\ lpc = "done" /\ exhaustive =>
          ~(PageHadWorkout /\ before # None /\ before[1] >= 0)

\* C19 witness: a single-page listing returned after a full page of
\* workouts, more entries left on the remote.
C19_Witness ==
    /\ lpc = "done"
    /\ ~exhaustive
    /\ untils = <<None>>
    /\ Len(reqdata) = PageSize
    /\ PageHadWorkout
    /\ Len(remote) > PageSize

\* A call of UploadActivity on instance i has returned or raised.
Finished(i) == upc[i] = "idle" /\ result[i] \in {"id", "noop", "auth", "api"}

\* This call's POST has been issued.
Posted(i) == postResp[i] # NoResponse

\* C5 as claimed: a 401 on the list GET, the POST or the PUT ends the
\* operation with the Authorization error, and no request follows it.
C5_UnauthorizedIsAuthError ==
    /\ lstatus = 401 => lpc = "error" /\ lerr = "auth"
    /\ \A i \in Insts :
         Finished(i) =>
            /\ postResp[i].status = 401 => result[i] = "auth" /\ puts[i] = <<>>
            /\ putResp[i].status = 401 => result[i] = "auth"

\* C6 as claimed: however a call ended, it recorded LastUpload.
C6_RecordsOnEveryPath ==
    \A i \in Insts :
       Finished(i) => LastUpload[i] # None /\ LastUpload[i][1] >= postTime[i]

\* C6 amended: a call that returns (the entry id, or the no-op of either
\* duplicate path) has recorded LastUpload, at a time not before its POST; a
\* call that raises (401, or a failure of either request) leaves LastUpload
\* as it found it.
C6_RecordsOnReturn ==
    \A i \in Insts :
       /\ Finished(i) /\ result[i] \in {"id", "noop"} =>
             /\ LastUpload[i] # None
             /\ LastUpload[i][1] >= postTime[i]
             /\ LastUpload[i][1] <= now
       /\ Finished(i) /\ result[i] \in {"auth", "api"} =>
             LastUpload[i] = luAtCall[i]

\* C6 witness: a call ended as the duplicate no-op of the track attach and
\* recorded LastUpload.
C6_Witness ==
    \E i \in Insts :
       /\ Finished(i)
       /\ result[i] = "noop"
       /\ putResp[i].dup
       /\ LastUpload[i] # None
       /\ luAtCall[i] = None

\* C7: the POST is never issued less than Cooldown seconds after the
\* LastUpload the instance holds, the cooldown loop sleeps at most Cooldown
\* times, and this holds after a call that returned the no-op as after one
\* that returned an id.
C7_CooldownBeforePost ==
    \A i \in Insts :
       /\ postGap[i] = -1 \/ postGap[i] >= Cooldown
       /\ polls[i] <= Cooldown
       /\ upc[i] \in {"ratelimit", "post"} /\ ReadLastUpload(i) # None =>
             now - ReadLastUpload(i)[1] >= Cooldown
       /\ prevResult[i] \in {"id", "noop"} /\ Posted(i) =>
             /\ luAtCall[i] # None
             /\ postTime[i] - luAtCall[i][1] >= Cooldown

\* C7 witness: the call after a duplicate no-op slept in the cooldown loop
\* and then issued its POST.
C7_Witness ==
    \E i \in Insts :
       /\ prevResult[i] = "noop"
       /\ polls[i] > 0
       /\ Posted(i)
       /\ postGap[i] >= Cooldown

\* C8: whenever a thread is about to send the list GET, the POST or the PUT,
\* it holds exactly one rate-gate permit, acquired after its last request
\* and followed by no wait.
C8_GateBeforeRequest ==
    /\ lpc = "get" => lgate = "acquire"
    /\ \A i \in Insts : upc[i] \in {"post", "put"} => ugate[i] = "acquire"

\* C8 witness: after the cooldown sleeps, the POST and the backoff sleep, the
\* PUT is about to be sent under a fresh permit.
C8_Witness ==
    \E i \in Insts :
       /\ upc[i] = "put"
       /\ ugate[i] = "acquire"
       /\ polls[i] > 0

\* C9: a call that ran to its end issued the PUT once, to the entry its POST
\* created, when the POST returned 201 and the activity has trajectory
\* points, and issued no PUT otherwise; no call issues a second PUT.
C9_TrackAfterCreate ==
    \A i \in Insts :
       /\ Len(puts[i]) <= 1
       /\ puts[i] # <<>> =>
             /\ postResp[i].status = 201
             /\ puts[i][1] = upload_id[i]
             /\ [id |-> upload_id[i], UID |-> activity[i].UID] \in entries
       /\ Finished(i) =>
             (puts[i] # <<>>
                <=> postResp[i].status = 201 /\ activity[i].waypoints > 0)

\* C9 witness: a call created the entry, attached the track and returned the
\* id.
C9_Witness ==
    \E i \in Insts :
       /\ Finished(i)
       /\ result[i] = "id"
       /\ puts[i] = <<upload_id[i]>>
       /\ upload_id[i] \in tracks

\* C10: the remote account never holds two entries of one activity, and a
\* call whose POST re-submits an entry the remote has, and is answered with
\* the duplicate marker (and no 401), returns the no-op without a PUT.
C10_IdempotentRetry ==
    /\ \A a \in Activities :
         Cardinality({ e \in entries : e.UID = a.UID }) <= 1
    /\ \A i \in Insts :
         Finished(i) /\ resubmit[i] /\ postResp[i].dup /\ postResp[i].status # 401 =>
            /\ result[i] = "noop"
            /\ puts[i] = <<>>
            /\ upload_id[i] = 0

\* C10 witness: the call before was interrupted between entry creation and
\* track attach; the re-run was answered with the duplicate marker and
\* returned the no-op, one entry on the remote.
C10_Witness ==
    \E i \in Insts :
       /\ prevResult[i] = "killed"
       /\ Finished(i)
       /\ resubmit[i]
       /\ result[i] = "noop"
       /\ Cardinality({ e \in entries : e.UID = activity[i].UID }) = 1

\* The responses after which a call may return the remote entry id.
C20_IdCase(i) ==
    /\ postResp[i].status = 201
    /\ activity[i].waypoints = 0 \/ putResp[i].status = 201

\* The responses after which a call may return without an id.
C20_NoopCase(i) ==
    \/ postResp[i].status \notin {201, 401} /\ postResp[i].dup
    \/ /\ postResp[i].status = 201
       /\ putResp[i] # NoResponse
       /\ putResp[i].status # 201
       /\ putResp[i].dup

\* C20: a call that ended on a response returned the entry id exactly after
\* a 201 to the POST and, for an activity with a track, a 201 to the PUT; it
\* returned without an id exactly after a non-201 carrying the duplicate
\* marker (at the POST unless the status was 401, or at the PUT); in every
\* other case it raised.
C20_ReturnOnlyOnSuccessOrDuplicate ==
    \A i \in Insts :
        result[i] \in {"id", "noop", "auth", "api"} =>
            /\ result[i] = "id" <=> C20_IdCase(i)
            /\ result[i] = "noop" <=> C20_NoopCase(i)
            /\ result[i] \in {"auth", "api"} <=> ~C20_IdCase(i) /\ ~C20_NoopCase(i)

\* C20 witness: the entry was created and the PUT of the track answered
\* with the duplicate marker, so the call returned without an id.
C20_Witness ==
    /\ result["a"] = "noop"
    /\ postResp["a"].status = 201
    /\ putResp["a"].status = 500
    /\ putResp["a"].dup

\* Instance i's call of UploadActivity ends in this step.
CallEnds(i) == upc[i] # "idle" /\ upc'[i] = "idle"

\* C16: with two instances interleaved, the end of an upload on one instance
\* leaves the LastUpload the other instance reads as it was.
C16_CooldownPerInstance ==
    [][ \A i \in Insts : \A j \in Insts \ {i} :
          CallEnds(i) => ReadLastUpload(j)' = ReadLastUpload(j) ]_vars

\* C16 witness: instance "a" completed an upload and recorded its time while
\* instance "b", in the middle of its own first call, still reads no
\* LastUpload and has not waited.
C16_Witness ==
    /\ result["a"] = "id"
    /\ LastUpload["a"] # None
    /\ upc["b"] \in {"ratelimit", "post"}
    /\ ReadLastUpload("b") = None
    /\ polls["b"] = 0

\* C14: every supported type maps to a remote string the reverse table
\* knows, so a listing of an uploaded entry never finds its type unmapped,
\* and the type it yields is the same in every later upload-and-list round.
C14_TypeRoundTrip ==
    /\ \A k \in DOMAIN readTypes : readTypes[k] \in SupportedActivities
    /\ \A k \in DOMAIN readTypes : k >= 2 => readTypes[k] = readTypes[k - 1]
    /\ mpc \in {"resync", "done"} =>
          /\ req.activity_type \in DOMAIN reverseActivityTypeMappings
          /\ readBack.Type = reverseActivityTypeMappings[req.activity_type]
          /\ reverseActivityTypeMappings[activityTypeMappings[readBack.Type]]
                = readBack.Type

\* C14 witness: a MountainBiking activity came back as Cycling, was uploaded
\* again and came back as Cycling again.
C14_Witness ==
    /\ mpc = "done"
    /\ rounds = 2
    /\ readTypes = <<"Cycling", "Cycling">>
    /\ req.activity_type = "Cycling"
    /\ \E a \in NeutralActivities :
          a.Type = "MountainBiking" /\ readBack.Distance = a.Distance

\* A distance in thousandths of a meter.
InMeters(stat) ==
    IF stat.Units = "Meters" THEN stat.Value ELSE stat.Value * 1000

\* C17: the distance of the payload is in meters exactly when the activity
\* is Swimming and in kilometers otherwise, its value the activity's
\* distance in that unit; a swim of 1500 m is sent as 1500 meters.
C17_SwimmingInMeters ==
    req # NoReq =>
        /\ req.distance.units = "meters" <=> neutral.Type = "Swimming"
        /\ req.distance.units = "kilometers" <=> neutral.Type # "Swimming"
        /\ req.distance.units = "meters" =>
              req.distance.value = InMeters(neutral.Distance)
        /\ req.distance.units = "kilometers" =>
              req.distance.value * 1000 = InMeters(neutral.Distance)
        /\ neutral = [Type |-> "Swimming", Distance |-> Stat("Meters", 1500000)] =>
              req.distance = [value |-> 1500000, units |-> "meters"]

\* C17 witness: the payload of a Swimming activity of 1.5 km has been built,
\* and says 1500 meters.
C17_Witness ==
    /\ mpc = "read"
    /\ neutral = [Type |-> "Swimming", Distance |-> Stat("Kilometers", 1500)]
    /\ req.distance = [value |-> Thousandths(1500), units |-> "meters"]

\* The records of a collection that account a does not own.
NotOwnedBy(collection, a) == { r \in collection : r.Owner # a }

\* C15: after DeleteCachedData for an account neither collection holds a
\* record the account owns, the records of every other account are the ones
\* that were there before, a call that finds no record of the account
\* changes nothing, and the call ends without an error.
C15_InvalidateRemovesOwned ==
    invalidations > 0 =>
        /\ \A r \in strava_cache \cup strava_activity_cache : r.Owner # cacheOwner
        /\ NotOwnedBy(strava_cache, cacheOwner)
              = NotOwnedBy(cacheBefore[1], cacheOwner)
        /\ NotOwnedBy(strava_activity_cache, cacheOwner)
              = NotOwnedBy(cacheBefore[2], cacheOwner)
        /\ (\A r \in cacheBefore[1] \cup cacheBefore[2] : r.Owner # cacheOwner) =>
              <<strava_cache, strava_activity_cache>> = cacheBefore
        /\ cacheResult = "ok"

\* C15 witness: account A had records in both collections when it was
\* invalidated; they are gone, and B's records are still there.
C15_Witness ==
    /\ invalidations = 1
    /\ cacheOwner = "A"
    /\ \E r \in cacheBefore[1] : r.Owner = "A"
    /\ \E r \in cacheBefore[2] : r.Owner = "A"
    /\ \E r \in strava_cache : r.Owner = "B"
    /\ \E r \in strava_activity_cache : r.Owner = "B"

====
